---- MODULE Spec2Model ----
(***************************************************************************)
(* A model of the syslogformat package: the severity mapping               *)
(* (severity.py), the helpers (helpers.py) and SyslogFormatter             *)
(* (formatter.py): its constructor and its format method.                  *)
(*                                                                         *)
(* Text is modelled as a sequence of one-character strings, so that        *)
(* formatting, padding, stripping and the regular-expression substitution  *)
(* are computed character by character as the code computes them.          *)
(***************************************************************************)
EXTENDS Integers, Sequences, FiniteSets, TLC

VARIABLES
    formatter,    \* the SyslogFormatter instance (its five attributes), or NoFormatter
    init_args,    \* the arguments of the last call of SyslogFormatter.__init__
    init_error,   \* the exception that call raised: its class and the value it carries
    record,       \* the LogRecord at hand, or NoRecord
    message,      \* format's local variable `message` just before formatter.py:179
    output,       \* the return value of the last format call on record
    calls,        \* number of format calls made on record by formatter
    renders,      \* number of formatException calls made for record
    sev_level,    \* input of the severity mapper when it is exercised on its own
    sev_result,   \* its result
    sev_pair,     \* two levels low <= high and the mapper's results for them
    threads       \* the format calls in progress on record, one per thread

vars == <<formatter, init_args, init_error, record, message, output, calls,
          renders, sev_level, sev_result,
                   sev_pair, threads>>

-----------------------------------------------------------------------------
(* Bounds of the model.                                                    *)

\* format calls counted per record (the counter is capped in Format's guard)
MaxCalls == 2
\* the severity mapper is exercised on the levels -MaxLevelBelow .. MaxLevelAbove
MaxLevelBelow == 10
MaxLevelAbove == 110

-----------------------------------------------------------------------------
(* Python values.                                                          *)

\* Optional[str]: None, or a text
None == [some |-> FALSE, val |-> <<>>]
Some(v) == [some |-> TRUE, val |-> v]
\* Python truthiness of an Optional[str]: None and "" are false
Truthy(o) == o.some /\ o.val # <<>>

\* the characters str.strip() removes and the pattern \s matches
\* (of these, the model's texts use the space, \t, \n and \r)
Whitespace == {" ", "\t", "\n", "\r", "\f"}

Digits == <<"0", "1", "2", "3", "4", "5", "6", "7", "8", "9">>

\* str(n) for a natural number n
RECURSIVE NatToStr(_)
NatToStr(n) ==
    IF n < 10 THEN <<Digits[n + 1]>>
    ELSE NatToStr(n \div 10) \o <<Digits[(n % 10) + 1]>>

\* str(n) for an integer n, as an f-string renders it: no padding, a minus sign
IntToStr(n) == IF n < 0 THEN <<"-">> \o NatToStr(0 - n) ELSE NatToStr(n)

\* f"{s:<w}": s left-justified in a field of at least w characters
RECURSIVE LJust(_, _)
LJust(s, w) == IF Len(s) >= w THEN s ELSE LJust(s \o <<" ">>, w)

\* str.lstrip(), str.rstrip(), str.strip()
LStrip(s) ==
    LET first == CHOOSE i \in 1..(Len(s) + 1) :
                    /\ \A q \in 1..(i - 1) : s[q] \in Whitespace
                    /\ i = Len(s) + 1 \/ s[i] \notin Whitespace
    IN  SubSeq(s, first, Len(s))
RStrip(s) ==
    LET last == CHOOSE i \in 0..Len(s) :
                   /\ \A q \in (i + 1)..Len(s) : s[q] \in Whitespace
                   /\ i = 0 \/ s[i] \notin Whitespace
    IN  SubSeq(s, 1, last)
Strip(s) == RStrip(LStrip(s))

-----------------------------------------------------------------------------
(* severity.py                                                             *)

EMERGENCY == 0
ALERT == 1
CRITICAL == 2
ERROR == 3
WARNING == 4
NOTICE == 5
INFORMATIONAL == 6
DEBUG == 7

\* the levels of the logging module
LOGGING_NOTSET == 0
LOGGING_DEBUG == 10
LOGGING_INFO == 20
LOGGING_WARNING == 30
LOGGING_ERROR == 40
LOGGING_CRITICAL == 50

\* math.inf, as a bound of the table
Inf == [inf |-> TRUE, num |-> 0]
Bound(n) == [inf |-> FALSE, num |-> n]
\* level_num <= level_bound
LevelLeq(level_num, level_bound) ==
    level_bound.inf \/ level_num <= level_bound.num

LOG_LEVEL_BOUND_SEVERITY ==
    << <<Bound(LOGGING_DEBUG), DEBUG>>,
       <<Bound(LOGGING_INFO), INFORMATIONAL>>,
       <<Bound(LOGGING_WARNING), WARNING>>,
       <<Bound(LOGGING_ERROR), ERROR>>,
       <<Bound(LOGGING_CRITICAL), CRITICAL>>,
       <<Inf, ALERT>> >>

\* raise CodeShouldBeUnreachable
CodeShouldBeUnreachable == -1

\* the for loop of log_level_severity, from entry i of the table on
RECURSIVE SeverityFrom(_, _, _)
SeverityFrom(table, i, level_num) ==
    IF i > Len(table) THEN CodeShouldBeUnreachable
    ELSE IF LevelLeq(level_num, table[i][1]) THEN table[i][2]
    ELSE SeverityFrom(table, i + 1, level_num)

\* a table without the CRITICAL row: everything above ERROR is an ALERT
MutTableNoCritical ==
    << <<Bound(LOGGING_DEBUG), DEBUG>>,
       <<Bound(LOGGING_INFO), INFORMATIONAL>>,
       <<Bound(LOGGING_WARNING), WARNING>>,
       <<Bound(LOGGING_ERROR), ERROR>>,
       <<Inf, ALERT>> >>
MutSeverityNoCritical(level_num) == SeverityFrom(MutTableNoCritical, 1, level_num)

\* a table whose WARNING and ERROR rows carry each other's severity
MutTableSwapped ==
    << <<Bound(LOGGING_DEBUG), DEBUG>>,
       <<Bound(LOGGING_INFO), INFORMATIONAL>>,
       <<Bound(LOGGING_WARNING), ERROR>>,
       <<Bound(LOGGING_ERROR), WARNING>>,
       <<Bound(LOGGING_CRITICAL), CRITICAL>>,
       <<Inf, ALERT>> >>
MutSeveritySwapped(level_num) == SeverityFrom(MutTableSwapped, 1, level_num)

log_level_severity(level_num) ==
    SeverityFrom(LOG_LEVEL_BOUND_SEVERITY, 1, level_num)

-----------------------------------------------------------------------------
(* helpers.py                                                              *)

\* logging.getLevelNamesMapping() / logging._nameToLevel
LevelNames == {"CRITICAL", "FATAL", "ERROR", "WARN", "WARNING", "INFO", "DEBUG", "NOTSET"}
get_level_name_mapping ==
    [n \in LevelNames |->
        CASE n \in {"CRITICAL", "FATAL"} -> LOGGING_CRITICAL
          [] n = "ERROR" -> LOGGING_ERROR
          [] n \in {"WARN", "WARNING"} -> LOGGING_WARNING
          [] n = "INFO" -> LOGGING_INFO
          [] n = "DEBUG" -> LOGGING_DEBUG
          [] OTHER -> LOGGING_NOTSET]

\* an int | str argument: kind says which field holds the value
IntArg(n) == [kind |-> "int", num |-> n, name |-> ""]
StrArg(s) == [kind |-> "str", num |-> 0, name |-> s]

\* the outcome of a call: a return value, or an exception and the value it carries
Return(v) == [raised |-> "none", value |-> v]
Raise(cls, arg) == [raised |-> cls, value |-> arg]

\* helpers.py:45 raises InvalidLogLevel, the name helpers.py:9 imports from
\* exceptions.py; exceptions.py defines no class of that name (see
\* ExceptionBases)
normalize_log_level(level) ==
    IF level.kind = "int" THEN Return(level.num)
    ELSE IF level.name \notin DOMAIN get_level_name_mapping
         THEN Raise("InvalidLogLevel", level)
         ELSE Return(get_level_name_mapping[level.name])

\* the PRI part computed with the facility shifted by four bits instead of three
MutPriPartTimes16(log_level, facility) ==
    <<"<">> \o IntToStr(facility * 16 + log_level_severity(log_level)) \o <<">">>

get_syslog_pri_part(log_level, facility) ==
    <<"<">> \o IntToStr(facility * 8 + log_level_severity(log_level)) \o <<">">>

-----------------------------------------------------------------------------
(* exceptions.py                                                           *)

\* the exception classes exceptions.py defines, with their base classes
ExceptionBases ==
    [c \in {"NonStandardSyslogFacility", "InvalidLogLevelThreshold",
            "CodeShouldBeUnreachable"} |->
        CASE c = "NonStandardSyslogFacility" -> {"ValueError", "SyslogFormatError"}
          [] c = "InvalidLogLevelThreshold" -> {"SyslogFormatError"}
          [] OTHER -> {"AssertionError", "SyslogFormatError"}]

-----------------------------------------------------------------------------
(* facility.py                                                             *)

KERNEL == 0
USER == 1
LOCAL_7 == 23

-----------------------------------------------------------------------------
(* The logging module, as far as formatter.py uses it.                     *)

\* a part of a format string: a %(field)s reference, or literal text
Field(f) == [field |-> f, lit |-> <<>>]
Lit(t) == [field |-> "", lit |-> t]

\* logging.Formatter.__init__ keeps `fmt or "%(message)s"` as the style's format
\* (no format string is a sequence of no parts)
StyleFormat(fmt) ==
    IF fmt.some /\ fmt.val # <<>> THEN fmt.val ELSE <<Field("message")>>

\* logging.getLevelName, which LogRecord.__init__ stores as levelname
LevelNameOf(levelno) ==
    CASE levelno = LOGGING_CRITICAL -> <<"C", "R", "I", "T", "I", "C", "A", "L">>
      [] levelno = LOGGING_ERROR -> <<"E", "R", "R", "O", "R">>
      [] levelno = LOGGING_WARNING -> <<"W", "A", "R", "N", "I", "N", "G">>
      [] levelno = LOGGING_INFO -> <<"I", "N", "F", "O">>
      [] levelno = LOGGING_DEBUG -> <<"D", "E", "B", "U", "G">>
      [] levelno = LOGGING_NOTSET -> <<"N", "O", "T", "S", "E", "T">>
      [] OTHER -> <<"L", "e", "v", "e", "l", " ">> \o IntToStr(levelno)

\* LogRecord.getMessage() of a record logged without arguments: str(msg)
getMessage(r) == r.msg

\* the value of %(field)s for a record
FieldText(r, f) ==
    CASE f = "message" -> r.message.val
      [] f = "name" -> r.name
      [] f = "levelname" -> r.levelname
      [] f = "module" -> r.module
      [] f = "funcName" -> r.funcName
      [] OTHER -> IntToStr(r.lineno)

\* Formatter.formatMessage: the style's format string % record.__dict__
RECURSIVE RenderParts(_, _, _)
RenderParts(parts, i, r) ==
    IF i > Len(parts) THEN <<>>
    ELSE (IF parts[i].field = "" THEN parts[i].lit ELSE FieldText(r, parts[i].field))
         \o RenderParts(parts, i + 1, r)
formatMessage(f, r) == RenderParts(f.fmt, 1, r)

\* traceback.print_exception: the header, one line per frame, "Type: value"
RECURSIVE FrameLines(_, _)
FrameLines(tb, i) ==
    IF i > Len(tb) THEN <<>>
    ELSE <<" ", " ", "F", "i", "l", "e", " ", "\"">> \o tb[i].file
         \o <<"\"", ",", " ", "l", "i", "n", "e", " ">> \o IntToStr(tb[i].line)
         \o <<",", " ", "i", "n", " ">> \o tb[i].func \o <<"\n">>
         \o FrameLines(tb, i + 1)
print_exception(ei) ==
    <<"T", "r", "a", "c", "e", "b", "a", "c", "k", " ", "(", "m", "o", "s", "t",
      " ", "r", "e", "c", "e", "n", "t", " ", "c", "a", "l", "l", " ", "l", "a",
      "s", "t", ")", ":", "\n">>
    \o FrameLines(ei.tb, 1) \o ei.type \o <<":", " ">> \o ei.value \o <<"\n">>

\* Formatter.formatException: the printed exception without its last newline
formatException(ei) ==
    LET s == print_exception(ei)
    IN  IF s # <<>> /\ s[Len(s)] = "\n" THEN SubSeq(s, 1, Len(s) - 1) ELSE s

\* Formatter.formatStack returns the stack text as it is
formatStack(stack_info) == stack_info

-----------------------------------------------------------------------------
(* formatter.py: LINE_BREAK_PATTERN and re.sub                             *)

\* (?:\r\n|\r|\n)\s* : the alternatives in the order they are tried, then \s*
LINE_BREAK_PATTERN ==
    [alternatives |-> << <<"\r", "\n">>, <<"\r">>, <<"\n">> >>,
     trailing |-> Whitespace]

\* whether text t occurs in s at position i
OccursAt(t, s, i) ==
    /\ i >= 1
    /\ i + Len(t) - 1 <= Len(s)
    /\ \A k \in 1..Len(t) : s[i + k - 1] = t[k]

\* the length of the first alternative, from alternative k on, that matches at i
\* (0 when none does)
RECURSIVE AltLen(_, _, _, _)
AltLen(alts, k, s, i) ==
    IF k > Len(alts) THEN 0
    ELSE IF OccursAt(alts[k], s, i) THEN Len(alts[k])
    ELSE AltLen(alts, k + 1, s, i)

\* the greedy star: the first position from j on that holds no character of cls
StarEnd(cls, s, j) ==
    CHOOSE e \in j..(Len(s) + 1) :
        /\ \A q \in j..(e - 1) : s[q] \in cls
        /\ e = Len(s) + 1 \/ s[e] \notin cls

\* re's search: the leftmost position from i on where the pattern matches
\* (0 when there is none)
SearchFrom(pattern, s, i) ==
    LET firsts == {pattern.alternatives[k][1] : k \in 1..Len(pattern.alternatives)}
        starts == {j \in i..Len(s) :
                      s[j] \in firsts /\ AltLen(pattern.alternatives, 1, s, j) > 0}
    IN  IF starts = {} THEN 0
        ELSE CHOOSE j \in starts : \A k \in starts : j <= k

\* re.sub from position i on: the text up to the leftmost match is copied, the
\* match is replaced, and the scan goes on after it
RECURSIVE SubFrom(_, _, _, _)
SubFrom(pattern, repl, s, i) ==
    LET j == SearchFrom(pattern, s, i)
    IN  IF j = 0 THEN SubSeq(s, i, Len(s))
        ELSE SubSeq(s, i, j - 1) \o repl
             \o SubFrom(pattern, repl, s,
                        StarEnd(pattern.trailing, s,
                                j + AltLen(pattern.alternatives, 1, s, j)))

\* a substitution that matches the line break alone, not the whitespace after it
MutSubNoTrailing(pattern, repl, s) ==
    SubFrom([pattern EXCEPT !.trailing = {}], repl, s, 1)

\* re.sub(pattern, repl, s), for a repl without backslashes (a backslash in
\* repl would be read as an escape or a group reference)
re_sub(pattern, repl, s) == SubFrom(pattern, repl, s, 1)

-----------------------------------------------------------------------------
(* formatter.py: SyslogFormatter.__init__                                  *)

NoFormatter ==
    [exists |-> FALSE, facility |-> 0, line_break_repl |-> None,
     detail_threshold |-> 0, prepend_level_name |-> FALSE, custom_fmt |-> FALSE,
     fmt |-> <<>>]

NoError == [raised |-> "none", facility |-> 0, level |-> IntArg(0)]

\* a validation that accepts the facility 24 as well (the bound off by one)
MutFacilityRejectedAbove24(validate, facility) ==
    validate /\ facility \notin 0..24

\* formatter.py:130, `validate and facility not in range(24)`
FacilityRejected(validate, facility) ==
    validate /\ facility \notin 0..(LOCAL_7)

\* the instance __init__ leaves behind when it raises nothing: formatter.py:132-140
\* (threshold is the normalized detail_threshold)
NewFormatter(a, threshold) ==
    [exists |-> TRUE,
     facility |-> a.facility,
     line_break_repl |-> a.line_break_repl,
     detail_threshold |-> threshold,
     prepend_level_name |-> a.prepend_level_name,
     custom_fmt |-> a.fmt.some,
     fmt |-> StyleFormat(a.fmt)]

\* the outcome of SyslogFormatter(**a): the instance and the exception raised
Constructed(a) ==
    IF FacilityRejected(a.validate, a.facility)
    THEN [formatter |-> NoFormatter,
          error |-> [raised |-> "NonStandardSyslogFacility",
                     facility |-> a.facility, level |-> IntArg(0)]]
    ELSE LET n == normalize_log_level(a.detail_threshold)
         IN  IF n.raised # "none"
             THEN [formatter |-> NoFormatter,
                   error |-> [raised |-> n.raised, facility |-> 0, level |-> n.value]]
             ELSE [formatter |-> NewFormatter(a, n.value), error |-> NoError]

-----------------------------------------------------------------------------
(* formatter.py: SyslogFormatter.format                                    *)

\* formatter.py:162
PrependsLevelName(f) == ~f.custom_fmt /\ f.prepend_level_name

\* f"{record.levelname:<8}| "
LevelNamePrefix(r) == LJust(r.levelname, 8) \o <<"|", " ">>

\* a comparison that leaves out the records exactly at the threshold
MutAppendsDetailStrict(f, r) == ~f.custom_fmt /\ r.levelno > f.detail_threshold

\* formatter.py:167
AppendsDetail(f, r) == ~f.custom_fmt /\ r.levelno >= f.detail_threshold

\* f" | {record.module}.{record.funcName}.{record.lineno}"
DetailSuffix(r) ==
    <<" ", "|", " ">> \o r.module \o <<".">> \o r.funcName \o <<".">>
    \o IntToStr(r.lineno)

\* a condition that ignores the cache: the exception is rendered at every call
MutRendersExceptionAlways(r) == r.exc_info.some

\* formatter.py:171, `record.exc_info and not record.exc_text`
RendersException(r) == r.exc_info.some /\ ~Truthy(r.exc_text)

\* a return that replaces line breaks by "" when line_break_repl is None
MutReturnedAlwaysReplaced(f, m) ==
    re_sub(LINE_BREAK_PATTERN, f.line_break_repl.val, m)

\* formatter.py:179-181
Returned(f, m) ==
    IF ~f.line_break_repl.some THEN m
    ELSE re_sub(LINE_BREAK_PATTERN, f.line_break_repl.val, m)

\* a format that appends the stack text before the exception text
MutAssembledStackFirst(f, r) ==
    LET r1 == [r EXCEPT !.message = Some(getMessage(r))]
        pri == get_syslog_pri_part(r1.levelno, f.facility)
        m1 == IF PrependsLevelName(f) THEN pri \o LevelNamePrefix(r1) ELSE pri
        m2 == m1 \o formatMessage(f, r1)
        m3 == IF AppendsDetail(f, r1) THEN m2 \o DetailSuffix(r1) ELSE m2
        render == RendersException(r1)
        r2 == IF render
              THEN [r1 EXCEPT !.exc_text = Some(Strip(formatException(r1.exc_info.val)))]
              ELSE r1
        m4 == IF Truthy(r2.stack_info)
              THEN m3 \o <<"\n">> \o Strip(formatStack(r2.stack_info.val))
              ELSE m3
        m5 == IF Truthy(r2.exc_text) THEN m4 \o <<"\n">> \o r2.exc_text.val ELSE m4
    IN  [record |-> r2, message |-> m5, rendered |-> render]

\* a format that drops exc_info from the record once its text is cached
MutAssembledClearsExcInfo(f, r) ==
    LET r1 == [r EXCEPT !.message = Some(getMessage(r))]
        pri == get_syslog_pri_part(r1.levelno, f.facility)
        m1 == IF PrependsLevelName(f) THEN pri \o LevelNamePrefix(r1) ELSE pri
        m2 == m1 \o formatMessage(f, r1)
        m3 == IF AppendsDetail(f, r1) THEN m2 \o DetailSuffix(r1) ELSE m2
        render == RendersException(r1)
        r2 == IF render
              THEN [r1 EXCEPT !.exc_text = Some(Strip(formatException(r1.exc_info.val))),
                              !.exc_info.some = FALSE]
              ELSE r1
        m4 == IF Truthy(r2.exc_text) THEN m3 \o <<"\n">> \o r2.exc_text.val ELSE m3
        m5 == IF Truthy(r2.stack_info)
              THEN m4 \o <<"\n">> \o Strip(formatStack(r2.stack_info.val))
              ELSE m4
    IN  [record |-> r2, message |-> m5, rendered |-> render]

\* formatter.py:158-176: the record as format leaves it and the local `message`
Assembled(f, r) ==
    LET r1 == [r EXCEPT !.message = Some(getMessage(r))]
        pri == get_syslog_pri_part(r1.levelno, f.facility)
        m1 == IF PrependsLevelName(f) THEN pri \o LevelNamePrefix(r1) ELSE pri
        m2 == m1 \o formatMessage(f, r1)
        m3 == IF AppendsDetail(f, r1) THEN m2 \o DetailSuffix(r1) ELSE m2
        render == RendersException(r1)
        r2 == IF render
              THEN [r1 EXCEPT !.exc_text = Some(Strip(formatException(r1.exc_info.val)))]
              ELSE r1
        m4 == IF Truthy(r2.exc_text) THEN m3 \o <<"\n">> \o r2.exc_text.val ELSE m3
        m5 == IF Truthy(r2.stack_info)
              THEN m4 \o <<"\n">> \o Strip(formatStack(r2.stack_info.val))
              ELSE m4
    IN  [record |-> r2, message |-> m5, rendered |-> render]

-----------------------------------------------------------------------------
(* The inputs.                                                             *)

\* facility codes passed to the constructor: the ends of the standard range,
\* the default, and the codes on either side of the range
FacilityArgs == {-1, KERNEL, USER, LOCAL_7, 24, 25}

LineBreakReplArgs ==
    {None, Some(<<" ", "-", "-", ">", " ">>), Some(<<"T">>), Some(<<"\n", "\t">>)}

DetailThresholdArgs == {IntArg(LOGGING_WARNING), StrArg("INFO"), StrArg("NOTALEVEL")}

\* "%(levelname)s: %(message)s"
CustomFmt == <<Field("levelname"), Lit(<<":", " ">>), Field("message")>>
FmtArgs == {[some |-> FALSE, val |-> <<>>], [some |-> TRUE, val |-> CustomFmt]}

InitArgs ==
    [fmt : FmtArgs, validate : BOOLEAN, facility : FacilityArgs,
     line_break_repl : LineBreakReplArgs, detail_threshold : DetailThresholdArgs,
     prepend_level_name : BOOLEAN]

NoArgs ==
    [fmt |-> [some |-> FALSE, val |-> <<>>], validate |-> TRUE, facility |-> USER,
     line_break_repl |-> None, detail_threshold |-> IntArg(0),
     prepend_level_name |-> FALSE]

\* the levels records are logged at: the five named ones, one between ERROR and
\* CRITICAL, one above CRITICAL, and one whose name "Level 100" has nine characters
RecordLevels ==
    {LOGGING_DEBUG, LOGGING_INFO, LOGGING_WARNING, LOGGING_ERROR, 45,
     LOGGING_CRITICAL, 60, 100}

RecordMsgs ==
    {<<"f", "o", "o">>,
     <<"a", "b", "c", "\n", " ", " ", "x", "y", "z">>,
     <<"d", "o", "n", "e", "\n">>}

\* sys.exc_info() of `raise ValueError("this is bad")`
AnExcInfo ==
    [type |-> <<"V", "a", "l", "u", "e", "E", "r", "r", "o", "r">>,
     value |-> <<"t", "h", "i", "s", " ", "i", "s", " ", "b", "a", "d">>,
     tb |-> <<[file |-> <<"m", ".", "p", "y">>, line |-> 3, func |-> <<"f">>]>>]
NoExcInfo == [some |-> FALSE, val |-> [type |-> <<>>, value |-> <<>>, tb |-> <<>>]]

\* a record comes without exception, with one, or with one whose text another
\* formatter has cached already (logging.Formatter.format caches it unstripped)
RecordExcs ==
    {[exc_info |-> NoExcInfo, exc_text |-> None],
     [exc_info |-> [some |-> TRUE, val |-> AnExcInfo], exc_text |-> None],
     [exc_info |-> [some |-> TRUE, val |-> AnExcInfo],
      exc_text |-> Some(formatException(AnExcInfo))]}

RecordStacks ==
    {None,
     Some(<<"S", "t", "a", "c", "k", ":", "\r", "\n", " ", " ", "F", "i", "l", "e",
            " ", "\"", "m", ".", "p", "y", "\"", "\n", " ">>)}

\* LogRecord(name, level, pathname, lineno, msg, args, exc_info, func, sinfo)
LogRecord(levelno, msg, exc, sinfo) ==
    [exists |-> TRUE,
     name |-> <<"a", "p", "p">>,
     levelno |-> levelno,
     levelname |-> LevelNameOf(levelno),
     msg |-> msg,
     message |-> None,
     module |-> <<"m", "o", "d">>,
     funcName |-> <<"f", "u", "n", "c">>,
     lineno |-> 22,
     exc_info |-> exc.exc_info,
     exc_text |-> exc.exc_text,
     stack_info |-> sinfo]

NoRecord ==
    [exists |-> FALSE, name |-> <<>>, levelno |-> 0, levelname |-> <<>>,
     msg |-> <<>>, message |-> None, module |-> <<>>, funcName |-> <<>>,
     lineno |-> 0, exc_info |-> NoExcInfo, exc_text |-> None, stack_info |-> None]

-----------------------------------------------------------------------------
(* The state machine: a formatter is constructed, records are logged and   *)
(* formatted.                                                              *)

\* the severity mapper has not been applied
NotApplied == [applied |-> FALSE, severity |-> 0]

\* no pair of levels has been drawn
NoPair == [low |-> 0, high |-> 0, of_low |-> NotApplied, of_high |-> NotApplied]

\* no thread is in a format call
NoThreads == <<>>

Init ==
    /\ formatter = NoFormatter
    /\ init_args = NoArgs
    /\ init_error = NoError
    /\ record = NoRecord
    /\ message = <<>>
    /\ output = None
    /\ calls = 0
    /\ renders = 0
    /\ sev_level = 0
    /\ sev_result = NotApplied
    /\ sev_pair = NoPair
    /\ threads = NoThreads

\* SyslogFormatter(**a), while no formatter has been constructed
Construct ==
    /\ ~formatter.exists
    /\ \E a \in InitArgs :
         /\ init_args' = a
         /\ formatter' = Constructed(a).formatter
         /\ init_error' = Constructed(a).error
    /\ UNCHANGED <<record, message, output, calls, renders, sev_level, sev_result,
                   sev_pair, threads>>

\* the logging module creates a record and hands it to the formatter's handler
Log ==
    /\ formatter.exists
    /\ ~record.exists
    /\ \E l \in RecordLevels, m \in RecordMsgs, e \in RecordExcs, s \in RecordStacks :
         record' = LogRecord(l, m, e, s)
    /\ UNCHANGED <<formatter, init_args, init_error, message, output, calls,
                   renders, sev_level, sev_result,
                   sev_pair, threads>>

\* formatter.format(record)
Format ==
    /\ formatter.exists
    /\ record.exists
    /\ calls < MaxCalls
    /\ \E a \in {Assembled(formatter, record)} :
           /\ record' = a.record
           /\ message' = a.message
           /\ output' = Some(Returned(formatter, a.message))
           /\ renders' = IF a.rendered THEN renders + 1 ELSE renders
    /\ calls' = calls + 1
    /\ UNCHANGED <<formatter, init_args, init_error, sev_level, sev_result,
                   sev_pair, threads>>

\* the logging module drops a record once its handlers have formatted it
Discard ==
    /\ record.exists
    /\ calls >= 1
    /\ record' = NoRecord
    /\ message' = <<>>
    /\ output' = None
    /\ calls' = 0
    /\ renders' = 0
    /\ UNCHANGED <<formatter, init_args, init_error, sev_level, sev_result,
                   sev_pair, threads>>

Next == Construct \/ Log \/ Format \/ Discard

Spec == Init /\ [][Next]_vars

-----------------------------------------------------------------------------
(* The severity mapper on its own: a level is drawn, the mapper is applied.*)

SevInit ==
    /\ formatter = NoFormatter
    /\ init_args = NoArgs
    /\ init_error = NoError
    /\ record = NoRecord
    /\ message = <<>>
    /\ output = None
    /\ calls = 0
    /\ renders = 0
    /\ sev_level \in (0 - MaxLevelBelow)..MaxLevelAbove
    /\ sev_result = NotApplied
    /\ sev_pair = NoPair
    /\ threads = NoThreads

SevApply ==
    /\ ~sev_result.applied
    /\ sev_result' = [applied |-> TRUE, severity |-> log_level_severity(sev_level)]
    /\ UNCHANGED <<formatter, init_args, init_error, record, message, output,
                   calls, renders, sev_level, sev_pair, threads>>

SevNext == SevApply

SevSpec == SevInit /\ [][SevNext]_vars

-----------------------------------------------------------------------------
(* The severity mapper on two levels: a pair low <= high is drawn and the  *)
(* mapper is applied to each of the two, in either order.                  *)

PairInit ==
    /\ formatter = NoFormatter
    /\ init_args = NoArgs
    /\ init_error = NoError
    /\ record = NoRecord
    /\ message = <<>>
    /\ output = None
    /\ calls = 0
    /\ renders = 0
    /\ sev_level = 0
    /\ sev_result = NotApplied
    /\ \E l \in (0 - MaxLevelBelow)..MaxLevelAbove,
          h \in (0 - MaxLevelBelow)..MaxLevelAbove :
         /\ l <= h
         /\ sev_pair = [NoPair EXCEPT !.low = l, !.high = h]
    /\ threads = NoThreads

PairApplyLow ==
    /\ ~sev_pair.of_low.applied
    /\ sev_pair' = [sev_pair EXCEPT !.of_low =
                      [applied |-> TRUE, severity |-> log_level_severity(sev_pair.low)]]
    /\ UNCHANGED <<formatter, init_args, init_error, record, message, output,
                   calls, renders, sev_level, sev_result, threads>>

PairApplyHigh ==
    /\ ~sev_pair.of_high.applied
    /\ sev_pair' = [sev_pair EXCEPT !.of_high =
                      [applied |-> TRUE, severity |-> log_level_severity(sev_pair.high)]]
    /\ UNCHANGED <<formatter, init_args, init_error, record, message, output,
                   calls, renders, sev_level, sev_result, threads>>

PairNext == PairApplyLow \/ PairApplyHigh

PairSpec == PairInit /\ [][PairNext]_vars

-----------------------------------------------------------------------------
(* Two threads, each in a format call on the same record, which has        *)
(* exc_info and no exc_text.  Every line of format that reads or writes    *)
(* the record is a step of its own, and the steps of the two calls         *)
(* interleave freely.                                                      *)

Threads == {1, 2}

\* the formatters in use: default and custom format, each line_break_repl
ThreadFormatters ==
    {Constructed(a).formatter :
        a \in {b \in InitArgs : /\ b.validate
                                /\ b.facility = USER
                                /\ b.detail_threshold = IntArg(LOGGING_WARNING)
                                /\ b.prepend_level_name}}

\* the records the threads are handed
ThreadRecords ==
    {LogRecord(l, <<"f", "o", "o">>,
               [exc_info |-> [some |-> TRUE, val |-> AnExcInfo], exc_text |-> None], s) :
        l \in {LOGGING_INFO, LOGGING_ERROR}, s \in RecordStacks}

\* a thread that has just entered format of formatter f
Entered(f) ==
    [f |-> f, pc |-> "message", message |-> <<>>, rendered |-> FALSE, result |-> None]

ThreadInit ==
    /\ formatter = NoFormatter
    /\ init_args = NoArgs
    /\ init_error = NoError
    /\ record \in ThreadRecords
    /\ message = <<>>
    /\ output = None
    /\ calls = 0
    /\ renders = 0
    /\ sev_level = 0
    /\ sev_result = NotApplied
    /\ sev_pair = NoPair
    /\ threads \in [Threads -> {Entered(f) : f \in ThreadFormatters}]

\* formatter.py:158
SetMessage ==
    \E t \in DOMAIN threads :
        /\ threads[t].pc = "message"
        /\ record' = [record EXCEPT !.message = Some(getMessage(record))]
        /\ threads' = [threads EXCEPT ![t].pc = "head"]
        /\ UNCHANGED <<formatter, init_args, init_error, message, output, calls,
                       renders, sev_level, sev_result, sev_pair>>

\* formatter.py:161-168
BuildHead ==
    \E t \in DOMAIN threads :
        /\ threads[t].pc = "head"
        /\ LET f == threads[t].f
               pri == get_syslog_pri_part(record.levelno, f.facility)
               m1 == IF PrependsLevelName(f) THEN pri \o LevelNamePrefix(record) ELSE pri
               m2 == m1 \o formatMessage(f, record)
               m3 == IF AppendsDetail(f, record) THEN m2 \o DetailSuffix(record) ELSE m2
           IN  threads' = [threads EXCEPT ![t].message = m3, ![t].pc = "check"]
        /\ UNCHANGED <<formatter, init_args, init_error, record, message, output,
                       calls, renders, sev_level, sev_result, sev_pair>>

\* formatter.py:171
CheckCache ==
    \E t \in DOMAIN threads :
        /\ threads[t].pc = "check"
        /\ threads' = [threads EXCEPT ![t].pc =
                          IF RendersException(record) THEN "render" ELSE "test"]
        /\ UNCHANGED <<formatter, init_args, init_error, record, message, output,
                       calls, renders, sev_level, sev_result, sev_pair>>

\* formatter.py:172
WriteCache ==
    \E t \in DOMAIN threads :
        /\ threads[t].pc = "render"
        /\ record' = [record EXCEPT !.exc_text =
                         Some(Strip(formatException(record.exc_info.val)))]
        /\ threads' = [threads EXCEPT ![t].rendered = TRUE, ![t].pc = "test"]
        /\ UNCHANGED <<formatter, init_args, init_error, message, output, calls,
                       renders, sev_level, sev_result, sev_pair>>

\* a format that appends the exception text only if it has rendered it itself
MutAppendsOwnRenderOnly(th, r) == th.rendered

\* formatter.py:173, evaluated by thread th
AppendsExcText(th, r) == Truthy(r.exc_text)

\* formatter.py:173
TestCache ==
    \E t \in DOMAIN threads :
        /\ threads[t].pc = "test"
        /\ threads' = [threads EXCEPT ![t].pc =
                          IF AppendsExcText(threads[t], record) THEN "append" ELSE "stack"]
        /\ UNCHANGED <<formatter, init_args, init_error, record, message, output,
                       calls, renders, sev_level, sev_result, sev_pair>>

\* formatter.py:174
AppendExcText ==
    \E t \in DOMAIN threads :
        /\ threads[t].pc = "append"
        /\ threads' = [threads EXCEPT
                          ![t].message = @ \o <<"\n">> \o record.exc_text.val,
                          ![t].pc = "stack"]
        /\ UNCHANGED <<formatter, init_args, init_error, record, message, output,
                       calls, renders, sev_level, sev_result, sev_pair>>

\* formatter.py:175-176
AppendStack ==
    \E t \in DOMAIN threads :
        /\ threads[t].pc = "stack"
        /\ threads' = [threads EXCEPT
                          ![t].message =
                              IF Truthy(record.stack_info)
                              THEN @ \o <<"\n">> \o Strip(formatStack(record.stack_info.val))
                              ELSE @,
                          ![t].pc = "return"]
        /\ UNCHANGED <<formatter, init_args, init_error, record, message, output,
                       calls, renders, sev_level, sev_result, sev_pair>>

\* formatter.py:179-181
ReturnLine ==
    \E t \in DOMAIN threads :
        /\ threads[t].pc = "return"
        /\ threads' = [threads EXCEPT
                          ![t].result = Some(Returned(threads[t].f, threads[t].message)),
                          ![t].pc = "done"]
        /\ UNCHANGED <<formatter, init_args, init_error, record, message, output,
                       calls, renders, sev_level, sev_result, sev_pair>>

ThreadNext ==
    \/ SetMessage
    \/ BuildHead
    \/ CheckCache
    \/ WriteCache
    \/ TestCache
    \/ AppendExcText
    \/ AppendStack
    \/ ReturnLine

ThreadSpec == ThreadInit /\ [][ThreadNext]_vars

-----------------------------------------------------------------------------
(* Operators used to state the properties.                                 *)

LineBreakChars == {"\n", "\r"}

\* whether text t occurs somewhere in s
Contains(s, t) == \E i \in 1..(Len(s) - Len(t) + 1) : OccursAt(t, s, i)

\* the position of the first c in s (0 when there is none)
FirstIndexOf(c, s) ==
    IF \A i \in 1..Len(s) : s[i] # c THEN 0
    ELSE CHOOSE i \in 1..Len(s) : s[i] = c /\ \A k \in 1..(i - 1) : s[k] # c

\* a decimal numeral without padding: digits only, no leading zero
IsNumeral(ds) ==
    /\ ds # <<>>
    /\ \A i \in 1..Len(ds) : \E d \in 1..10 : Digits[d] = ds[i]
    /\ Len(ds) > 1 => ds[1] # "0"

\* the number a numeral denotes
RECURSIVE NumeralValue(_)
NumeralValue(ds) ==
    IF ds = <<>> THEN 0
    ELSE NumeralValue(SubSeq(ds, 1, Len(ds) - 1)) * 10
         + ((CHOOSE d \in 1..10 : Digits[d] = ds[Len(ds)]) - 1)

\* a numeral with an optional minus sign, and the integer it denotes
IsSignedNumeral(ds) ==
    IF ds # <<>> /\ ds[1] = "-"
    THEN IsNumeral(Tail(ds)) /\ Tail(ds) # <<"0">>
    ELSE IsNumeral(ds)
SignedValue(ds) ==
    IF ds[1] = "-" THEN 0 - NumeralValue(Tail(ds)) ELSE NumeralValue(ds)

\* the text between the leading "<" of s and the first ">"
PriDigits(s) == SubSeq(s, 2, FirstIndexOf(">", s) - 1)

\* a format call has returned for the record at hand
Formatted == formatter.exists /\ record.exists /\ output.some

\* the constructor has been called
ConstructorCalled == init_args # NoArgs

\* what format puts in front of the detail suffix: the PRI part, the level-name
\* prefix when there is one, and the message body
HeadOf(f, r) ==
    get_syslog_pri_part(r.levelno, f.facility)
    \o (IF PrependsLevelName(f) THEN LevelNamePrefix(r) ELSE <<>>)
    \o formatMessage(f, r)

\* the text ends with a line break and nothing but whitespace after it
EndsInLineBreakRun(t) ==
    \E j \in 1..Len(t) :
        t[j] \in LineBreakChars /\ \A k \in j..Len(t) : t[k] \in Whitespace

\* position i of s lies in a run made of a line break and the whitespace after it
InLineBreakRun(s, breaks, i) ==
    \E j \in breaks : j <= i /\ \A k \in j..i : s[k] \in Whitespace

\* s with every maximal run of a line break and the whitespace that follows it
\* replaced by t, position by position: a character outside the runs stays, the
\* first position of a run becomes t, the other positions of a run vanish
RECURSIVE RunsReplacedIn(_, _, _, _, _)
RunsReplacedIn(s, breaks, t, lo, hi) ==
    IF lo > hi THEN <<>>
    ELSE IF lo = hi
    THEN (IF ~InLineBreakRun(s, breaks, lo) THEN <<s[lo]>>
          ELSE IF lo = 1 \/ ~InLineBreakRun(s, breaks, lo - 1) THEN t
          ELSE <<>>)
    ELSE RunsReplacedIn(s, breaks, t, lo, (lo + hi) \div 2)
         \o RunsReplacedIn(s, breaks, t, ((lo + hi) \div 2) + 1, hi)
RunsReplaced(s, t) ==
    RunsReplacedIn(s, {j \in 1..Len(s) : s[j] \in LineBreakChars}, t, 1, Len(s))

HasLineBreak(s) == \E i \in 1..Len(s) : s[i] \in LineBreakChars

-----------------------------------------------------------------------------
(* The properties.                                                         *)

\* C1: for every facility the constructor accepted and every record level, the
\* string format returns begins with "<", the unpadded decimal numeral of
\* facility * 8 + log_level_severity(level), and ">".
C1_PriPart ==
    Formatted =>
        /\ output.val[1] = "<"
        /\ FirstIndexOf(">", output.val) > 2
        /\ IsSignedNumeral(PriDigits(output.val))
        /\ SignedValue(PriDigits(output.val))
             = init_args.facility * 8 + log_level_severity(record.levelno)

\* a record has been formatted under a facility outside 0..23 (validation off)
\* and under a level between ERROR and CRITICAL
C1_Witness ==
    /\ Formatted
    /\ ~init_args.validate
    /\ init_args.facility = 25
    /\ record.levelno = 45

\* C2, as stated: every level above ERROR (40), the level CRITICAL (50)
\* included, is mapped to the severity ALERT (1).
C2_Original ==
    (sev_result.applied /\ sev_level > 40) => sev_result.severity = 1

\* C2, amended: every level above CRITICAL (50) is mapped to the severity
\* ALERT (1); the levels above ERROR (40) up to CRITICAL (50) are mapped to the
\* severity CRITICAL (2).
C2_UpperClamp ==
    sev_result.applied =>
        /\ sev_level > 50 => sev_result.severity = 1
        /\ (sev_level > 40 /\ sev_level <= 50) => sev_result.severity = 2

\* the mapper has been applied to a level above CRITICAL
C2_Witness == sev_result.applied /\ sev_level > 50 /\ sev_result.severity = 1

\* C3, as stated: without a format string passed to the constructor, the body
\* that format appends after the PRI part and the level-name prefix is the
\* rendered message, " | " and the logger name.
C3_Original ==
    (Formatted /\ ~init_args.fmt.some) =>
        OccursAt(record.message.val \o <<" ", "|", " ">> \o record.name,
                 message,
                 Len(get_syslog_pri_part(record.levelno, formatter.facility))
                 + (IF PrependsLevelName(formatter)
                    THEN Len(LevelNamePrefix(record)) ELSE 0)
                 + 1)

C5_Original ==
    (ConstructorCalled /\ ~FacilityRejected(init_args.validate, init_args.facility)) =>
        /\ ( /\ init_args.detail_threshold.kind = "str"
             /\ init_args.detail_threshold.name \notin LevelNames )
             => /\ init_error.raised = "InvalidLogLevelThreshold"
                /\ init_error.level = init_args.detail_threshold
                /\ ~formatter.exists
        /\ init_args.detail_threshold = StrArg("INFO")
             => (formatter.exists /\ formatter.detail_threshold = 20)
        /\ init_args.detail_threshold.kind = "int"
             => /\ formatter.exists
                /\ formatter.detail_threshold = init_args.detail_threshold.num

HasLevelNamePrefix(w) ==
    LET n == Len(get_syslog_pri_part(record.levelno, formatter.facility))
    IN  /\ OccursAt(record.levelname, output.val, n + 1)
        /\ Len(record.levelname) <= w
        /\ n + w <= Len(output.val)
        /\ \A k \in (Len(record.levelname) + 1)..w : output.val[n + k] = " "
        /\ OccursAt(<<"|", " ">>, output.val, n + w + 1)

\* C7, as stated: the level-name prefix stands directly after the PRI part if
\* and only if prepend_level_name is true and no format string was passed to
\* the constructor, and its name field is 8 characters wide whatever the length
\* of the level name.
C7_Original ==
    Formatted =>
        (HasLevelNamePrefix(8)
           <=> (init_args.prepend_level_name /\ ~init_args.fmt.some))

C10_RepeatedFormat ==
    [][calls' = calls + 1 =>
         /\ calls >= 1 =>
              /\ output' = output
              /\ record'.exc_text = record.exc_text
              /\ renders' = renders
         /\ (calls = 0 /\ record.exc_info.some /\ ~Truthy(record.exc_text)) =>
              /\ renders' = 1
              /\ Truthy(record'.exc_text)
         /\ (calls = 0 /\ Truthy(record.exc_text)) =>
              /\ renders' = 0
              /\ record'.exc_text = record.exc_text
         /\ renders' <= 1]_vars

\* a record with exc_info and an empty cache has been formatted twice
C10_Witness ==
    /\ Formatted
    /\ calls >= 2
    /\ record.exc_info.some
    /\ renders = 1

-----------------------------------------------------------------------------
\* C11: the assembled line is the PRI part, the level-name prefix, the message
\* body, the detail suffix, the exception text and the stack text, in this
\* order, absent segments skipped; the exception text of a record that has
\* exc_info or a cached text, and the stack text of a record that has
\* stack_info, are each there behind a newline, also under a custom format,
\* which has neither the level-name prefix nor the detail suffix.
C11_SegmentOrder ==
    Formatted =>
        LET custom == init_args.fmt.some
            pri == get_syslog_pri_part(record.levelno, init_args.facility)
            prefix == IF ~custom /\ init_args.prepend_level_name
                      THEN LJust(record.levelname, 8) \o <<"|", " ">>
                      ELSE <<>>
            body == formatMessage(formatter, record)
            detail == IF ~custom /\ record.levelno >= formatter.detail_threshold
                      THEN DetailSuffix(record)
                      ELSE <<>>
            exc == IF record.exc_info.some \/ Truthy(record.exc_text)
                   THEN <<"\n">> \o record.exc_text.val
                   ELSE <<>>
            stack == IF record.stack_info.some
                     THEN <<"\n">> \o Strip(record.stack_info.val)
                     ELSE <<>>
        IN  /\ message = pri \o prefix \o body \o detail \o exc \o stack
            /\ record.exc_info.some => exc # <<"\n">>

\* a record with exc_info and stack_info has been formatted under a custom
\* format by a formatter asked to prepend the level name and to append details
C11_Witness ==
    /\ Formatted
    /\ init_args.fmt.some
    /\ init_args.prepend_level_name
    /\ record.levelno >= formatter.detail_threshold
    /\ record.exc_info.some
    /\ record.stack_info.some

-----------------------------------------------------------------------------
\* C12: the severity mapper is monotonically non-increasing: for two integer
\* levels low <= high, the severity of low is at least the severity of high.
C12_Monotone ==
    (sev_pair.of_low.applied /\ sev_pair.of_high.applied) =>
        /\ sev_pair.low <= sev_pair.high
        /\ sev_pair.of_low.severity >= sev_pair.of_high.severity

\* the mapper has been applied to two levels on either side of a bound of the
\* table, and has given two different severities
C12_Witness ==
    /\ sev_pair.of_low.applied
    /\ sev_pair.of_high.applied
    /\ sev_pair.low = LOGGING_WARNING
    /\ sev_pair.high = LOGGING_WARNING + 1
    /\ sev_pair.of_low.severity > sev_pair.of_high.severity

-----------------------------------------------------------------------------
\* the record the threads were handed: nothing rendered, nothing cached
Handed == [record EXCEPT !.message = None, !.exc_text = None]

\* every thread has returned from format
AllReturned == threads # NoThreads /\ \A t \in DOMAIN threads : threads[t].pc = "done"

\* C13: two format calls interleaved on one record that has exc_info and an
\* empty cache: a call that has returned has returned what a call of its
\* formatter alone on that record returns, and once both have returned the
\* cache holds what it holds after the two calls made one after the other,
\* in either order.
C13_ConcurrentFormat ==
    threads # NoThreads =>
        /\ \A t \in DOMAIN threads :
              threads[t].pc = "done" =>
                  threads[t].result =
                      Some(Returned(threads[t].f, Assembled(threads[t].f, Handed).message))
        /\ AllReturned =>
              \A t \in DOMAIN threads, u \in DOMAIN threads :
                  t # u =>
                      record.exc_text =
                          Assembled(threads[u].f,
                                    Assembled(threads[t].f, Handed).record).record.exc_text

\* two different formatters have both found the cache empty, both rendered
\* the exception and written the cache, and both have returned
C13_Witness ==
    /\ AllReturned
    /\ threads[1].f # threads[2].f
    /\ \A t \in DOMAIN threads : threads[t].rendered
    /\ Truthy(record.exc_text)

-----------------------------------------------------------------------------
\* the formatter's five attributes are what the constructor made of its arguments
ConfigAsConstructed ==
    /\ formatter.facility = init_args.facility
    /\ formatter.line_break_repl = init_args.line_break_repl
    /\ formatter.detail_threshold = normalize_log_level(init_args.detail_threshold).value
    /\ formatter.prepend_level_name = init_args.prepend_level_name
    /\ formatter.custom_fmt = init_args.fmt.some

\* C14 as stated: a format call leaves the formatter as constructed and writes
\* nothing on the record but exc_text.  Violated: format also writes the
\* record's message attribute (formatter.py:158).
C14_Original ==
    [][calls' = calls + 1 =>
         /\ formatter' = formatter
         /\ ConfigAsConstructed'
         /\ record' = [record EXCEPT !.exc_text = record'.exc_text]]_vars

\* C14: a format call leaves the formatter as constructed, and on the record
\* it leaves levelno, levelname, module, funcName, lineno, exc_info,
\* stack_info (and name and msg) unchanged: it writes the attribute message,
\* which it sets to the rendered message, and exc_text, which it changes only
\* to fill an empty cache of a record that has exc_info.
C14_Frame ==
    [][calls' = calls + 1 =>
         /\ formatter' = formatter
         /\ ConfigAsConstructed'
         /\ record' = [record EXCEPT !.exc_text = record'.exc_text,
                                     !.message = record'.message]
         /\ record'.message = Some(record.msg)
         /\ record'.exc_text # record.exc_text =>
               record.exc_info.some /\ ~Truthy(record.exc_text)]_vars

\* the first format call on a record with exc_info and stack_info has set the
\* record's message and filled its cache
C14_Witness ==
    /\ Formatted
    /\ calls = 1
    /\ renders = 1
    /\ record.exc_info.some
    /\ record.stack_info.some
    /\ record.message.some
    /\ Truthy(record.exc_text)

====
